---- MODULE Spec2Model ----
(***************************************************************************)
(* A model of resample.py: resample_band (geometry, resampling, profile),  *)
(* write_resampled, load_and_resample and main.                            *)
(*                                                                         *)
(* Floating point numbers are modelled as exact rationals <<n, d>> in      *)
(* lowest terms with d > 0.  A raster array is modelled by what determines *)
(* its bytes: the library call that produced it, the interpolation kernel, *)
(* the dataset it was read from and its shape.                             *)
(***************************************************************************)
EXTENDS Integers, Sequences, FiniteSets, TLC

VARIABLES
    \* ---- resample_band called on its own (SpecBand) ----
    b_dataset,      \* the dataset handed to resample_band
    b_target,       \* target_resolution (a float)
    b_resampler,    \* resampler
    b_out,          \* resampling_method -> what the call returned / raised
    \* ---- one run of the script (Spec) ----
    pc,                     \* position in main / load_and_resample
    isfile,                 \* os.path.isfile(file)
    subdatasets,            \* raw_ds.subdatasets of the source file
    naming_scheme,
    target_res,
    resampling_method,
    resampler,
    interned,       \* does `resampler is "rasterio"` see one object (both specs)
    sds_paths,
    resampled_subdatasets,
    opened,                 \* number of rio.open(sds) calls made
    ds_num,                 \* loop index of line 135
    band_num,               \* loop index of line 79
    disk,                   \* path -> file on disk
    error,                  \* the exception in flight, or NoError
    exit_status,            \* process exit status, -1 while running
    stdout

bandVars == <<b_dataset, b_target, b_resampler, b_out>>
runVars  == <<pc, isfile, subdatasets, naming_scheme, target_res, resampling_method,
              resampler, sds_paths, resampled_subdatasets, opened, ds_num,
              band_num, disk, error, exit_status, stdout>>
vars     == <<bandVars, runVars, interned>>

-----------------------------------------------------------------------------
(* Bounds of the model *)

MaxSubdatasets == 3

-----------------------------------------------------------------------------
(* Floats as rationals *)

Abs(x) == IF x < 0 THEN -x ELSE x

RECURSIVE GCD(_, _)
GCD(x, y) == IF y = 0 THEN x ELSE GCD(y, x % y)

Norm(n, d) ==
    LET g == GCD(Abs(n), Abs(d))
        s == IF d < 0 THEN -1 ELSE 1
    IN  <<(s * n) \div g, (s * d) \div g>>

\* float(i) of an int
Float(i) == <<i, 1>>

RMul(x, y) == Norm(x[1] * y[1], x[2] * y[2])

\* x / y, y # 0 (Python raises ZeroDivisionError otherwise; callers test first)
RDiv(x, y) == Norm(x[1] * y[2], x[2] * y[1])

RLess(x, y) == x[1] * y[2] < y[1] * x[2]

\* int(x): truncation toward zero
Trunc(x) == IF x[1] >= 0 THEN x[1] \div x[2] ELSE -((-x[1]) \div x[2])

\* round(x) of Python 3 for x >= 0: to nearest, ties to even
Round(x) ==
    LET q == x[1] \div x[2]
        r == x[1] % x[2]
    IN  IF 2 * r < x[2] THEN q
        ELSE IF 2 * r > x[2] THEN q + 1
        ELSE IF q % 2 = 0 THEN q ELSE q + 1

-----------------------------------------------------------------------------
(* Datasets *)

Affine(a, b, c, d, e, f) == [a |-> a, b |-> b, c |-> c, d |-> d, e |-> e, f |-> f]

\* A rio.io.DatasetReader: what resample_band reads of it
Dataset(name, res, transform, count, height, width) ==
    [name |-> name, res |-> res, transform |-> transform,
     count |-> count, height |-> height, width |-> width,
     profile |-> [driver |-> "HDF4Image", dtype |-> "int16", count |-> count,
                  height |-> height, width |-> width, transform |-> transform]]

North(res, c, f) == Affine(res, <<0, 1>>, Float(c), <<0, 1>>, <<-res[1], res[2]>>, Float(f))

Landsat == Dataset("landsat", <<<<30, 1>>, <<30, 1>>>>, North(<<30, 1>>, 100, 200), 2, 2, 3)
Coarse  == Dataset("coarse",  <<<<10, 1>>, <<10, 1>>>>, North(<<10, 1>>, 7, 9), 1, 3, 3)
Fine    == Dataset("fine",    <<<<5, 2>>, <<5, 2>>>>,   North(<<5, 2>>, 1, 2), 1, 2, 2)
SubUnit == Dataset("subunit", <<<<1, 2>>, <<1, 2>>>>,   North(<<1, 2>>, 3, 4), 1, 2, 2)
\* a rotated grid: res[0] = sqrt(a*a + d*d) = 5, res[1] = sqrt(b*b + e*e) = 13
Rotated == Dataset("rotated", <<<<5, 1>>, <<13, 1>>>>,
                   Affine(<<3, 1>>, <<5, 1>>, <<10, 1>>, <<4, 1>>, <<-12, 1>>, <<20, 1>>),
                   1, 3, 1)

Datasets == {Landsat, Coarse, Fine, SubUnit, Rotated}

\* target resolutions handed to resample_band directly (all > 0)
BandTargets == {<<1, 2>>, <<5, 2>>, <<5, 1>>, <<10, 1>>, <<20, 1>>, <<30, 1>>}

Resampling == {"nearest", "bilinear", "cubic", "cubic_spline"}
Resamplers == {"rasterio", "zoom"}

-----------------------------------------------------------------------------
(* resample_band *)

\* dict.update / Profile.update
Update(p, u) ==
    [k \in DOMAIN p \cup DOMAIN u |-> IF k \in DOMAIN u THEN u[k] ELSE p[k]]

\* line 26, target_resolution # 0
ScalingFloorDiv(dataset, target_resolution) ==
    Float(Trunc(RDiv(Float(Trunc(dataset.res[1])), target_resolution)))
Scaling(dataset, target_resolution) ==
    RDiv(Float(Trunc(dataset.res[1])), target_resolution)

\* line 31, scaling # 0
OutputTransformShift(trans, scaling) ==
    Affine(RDiv(trans.a, scaling), trans.b, RDiv(trans.c, scaling),
           trans.d, RDiv(trans.e, scaling), RDiv(trans.f, scaling))
OutputTransform(trans, scaling) ==
    Affine(RDiv(trans.a, scaling), trans.b, trans.c,
           trans.d, RDiv(trans.e, scaling), trans.f)

\* lines 32-33: <<height, width>>, floats
OutputGridSwapped(dataset, scaling) ==
    <<RMul(Float(dataset.width), scaling), RMul(Float(dataset.height), scaling)>>
OutputGrid(dataset, scaling) ==
    <<RMul(Float(dataset.height), scaling), RMul(Float(dataset.width), scaling)>>

\* line 42: `resampler is "rasterio"` compares object identity.  Two equal
\* strings may or may not be one object; unequal strings never are.
UsesRasterioAlways(a_resampler, same_object) == TRUE
UsesRasterio(a_resampler, same_object) ==
    a_resampler = "rasterio" /\ same_object

\* lines 44-51: dataset.read(out_shape=..., resampling=...)
ReadResampled(dataset, height, width, method) ==
    [via |-> "read", kernel |-> method, src |-> dataset.name,
     shape |-> <<dataset.count, Trunc(height), Trunc(width)>>]

\* lines 55-59: every layer of dataset.read() through zoom(order=0, mode='nearest');
\* zoom's output has round(n * scaling) cells along each axis
ZoomResampled(dataset, scaling) ==
    [via |-> "zoom", kernel |-> "order0", src |-> dataset.name,
     shape |-> <<dataset.count,
                 Round(RMul(Float(dataset.height), scaling)),
                 Round(RMul(Float(dataset.width), scaling))>>]

\* the lines resample_band prints (43, 53, 54); a printed line is a tuple of its parts
InfoRasterio == <<"[INFO] Using Rasterio resampler...">>
InfoZoom     == <<"[INFO] Using scipy zoom resampler...">>
WarningZoom  == <<"[WARNING] Zoom resampler does not honor resampling methods! Use the Rasterio resampler for this!">>

Raised(kind, line, printed) == [raised |-> kind, line |-> line, stdout |-> printed]

resample_band(dataset, target_resolution, method, a_resampler, same_object) ==
    IF target_resolution[1] = 0 THEN Raised("ZeroDivisionError", 26, <<>>)
    ELSE
    LET scaling == Scaling(dataset, target_resolution) IN
    IF scaling[1] = 0 THEN Raised("ZeroDivisionError", 31, <<>>)
    ELSE
    LET grid    == OutputGrid(dataset, scaling)
        height  == grid[1]
        width   == grid[2]
        profile == Update(dataset.profile,
                          [res       |-> <<target_resolution, target_resolution>>,
                           transform |-> OutputTransform(dataset.transform, scaling),
                           height    |-> height,
                           width     |-> width])
    IN  IF UsesRasterio(a_resampler, same_object)
        THEN [raised  |-> "none",
              data    |-> ReadResampled(dataset, height, width, method),
              profile |-> profile,
              stdout  |-> <<InfoRasterio>>]
        ELSE [raised  |-> "none",
              data    |-> ZoomResampled(dataset, scaling),
              profile |-> profile,
              stdout  |-> <<InfoZoom, WarningZoom>>]

-----------------------------------------------------------------------------
(* Text: a str is the sequence of its code points *)

\* str(n) for n >= 0
RECURSIVE StrOfNat(_)
StrOfNat(n) == IF n < 10 THEN <<48 + n>> ELSE StrOfNat(n \div 10) \o <<48 + (n % 10)>>

HexDigit(v) == IF v < 10 THEN 48 + v ELSE 87 + v

RECURSIVE Hex(_, _)
Hex(v, digits) ==
    IF digits = 0 THEN <<>> ELSE Hex(v \div 16, digits - 1) \o <<HexDigit(v % 16)>>

\* one code point under the 'unicode-escape' codec
EscapeChar(c) ==
    IF c = 92 THEN <<92, 92>>
    ELSE IF c = 9 THEN <<92, 116>>
    ELSE IF c = 10 THEN <<92, 110>>
    ELSE IF c = 13 THEN <<92, 114>>
    ELSE IF c >= 32 /\ c < 127 THEN <<c>>
    ELSE IF c < 256 THEN <<92, 120>> \o Hex(c, 2)
    ELSE IF c < 65536 THEN <<92, 117>> \o Hex(c, 4)
    ELSE <<92, 85>> \o Hex(c, 8)

\* path.encode('unicode-escape').decode(): the escaped bytes are ASCII, and
\* decode() maps each byte to the code point of the same number
RECURSIVE UnicodeEscape(_)
UnicodeEscape(s) ==
    IF s = <<>> THEN <<>> ELSE EscapeChar(Head(s)) \o UnicodeEscape(Tail(s))

\* "/{}/{}_{}.tiff".format(output_path, naming_scheme, ds_num)
ToCreate(output_path, scheme, num) ==
    <<47>> \o output_path \o <<47>> \o scheme \o <<95>> \o StrOfNat(num)
        \o <<46, 116, 105, 102, 102>>

\* write_resampled opens path.encode('unicode-escape').decode()
OpenedPath(path) == UnicodeEscape(path)

OutputPath == <<111, 117, 116>>                         \* "out"
NamingSchemes ==
    { <<111, 117, 116, 112, 117, 116>>,                 \* "output", the CLI default
      <<233, 116, 233>>,                                \* "ete" with acute accents
      <<97, 92, 98>> }                                  \* "a\b"

-----------------------------------------------------------------------------
(* The source file of a run *)

RunDatasets == {Landsat, Coarse, SubUnit}
RunTargets  == {10, 20}

\* rio.open(sds): the subdataset a path names
OpenSubdataset(sds) == CHOOSE d \in Datasets : d.name = sds[1]

\* the subdataset paths a container declares, in order
SubdatasetLists ==
    UNION { { [i \in 1..n |-> <<names[i], i>>] :
                names \in [1..n -> {d.name : d \in RunDatasets}] } :
            n \in 0..MaxSubdatasets }

NoError == [kind |-> "none"]

Line(text) == <<text>>

-----------------------------------------------------------------------------
(* resample_band called on its own, once per resampling method, on one input *)

RunIdle ==
    /\ pc = "idle" /\ isfile = FALSE /\ subdatasets = <<>> /\ naming_scheme = <<>>
    /\ target_res = 0 /\ resampling_method = "nearest" /\ resampler = "zoom"
    /\ sds_paths = <<>> /\ resampled_subdatasets = <<>> /\ opened = 0
    /\ ds_num = 0 /\ band_num = 0 /\ disk = <<>> /\ error = NoError
    /\ exit_status = -1 /\ stdout = <<>>

InitBand ==
    /\ b_dataset \in Datasets
    /\ b_target \in BandTargets
    /\ b_resampler \in Resamplers
    /\ interned \in BOOLEAN
    /\ b_out = <<>>
    /\ RunIdle

CallResampleBand ==
    \E method \in Resampling \ DOMAIN b_out :
        /\ b_out' = [m \in DOMAIN b_out \cup {method} |->
                        IF m = method
                        THEN resample_band(b_dataset, b_target, method, b_resampler, interned)
                        ELSE b_out[m]]
        /\ UNCHANGED <<b_dataset, b_target, b_resampler, interned, runVars>>

NextBand == CallResampleBand

SpecBand == InitBand /\ [][NextBand]_vars

-----------------------------------------------------------------------------
(* One run of the script: main -> load_and_resample -> write_resampled *)

Init ==
    /\ b_dataset = Landsat /\ b_target = <<10, 1>> /\ b_resampler = "zoom" /\ b_out = <<>>
    /\ pc = "main"
    /\ isfile \in BOOLEAN
    /\ subdatasets \in SubdatasetLists
    /\ naming_scheme \in NamingSchemes
    /\ target_res \in RunTargets
    /\ resampling_method \in Resampling
    /\ resampler \in Resamplers
    /\ interned \in BOOLEAN
    /\ sds_paths = <<>>
    /\ resampled_subdatasets = <<>>
    /\ opened = 0
    /\ ds_num = 0
    /\ band_num = 0
    /\ disk = <<>>
    /\ error = NoError
    /\ exit_status = -1
    /\ stdout = <<>>

inputs == <<isfile, subdatasets, naming_scheme, target_res, resampling_method,
            resampler, interned, bandVars>>

\* an exception nobody catches: traceback, exit status 1
Propagate(kind, line, index) ==
    /\ error' = [kind |-> kind, line |-> line, ds |-> index]
    /\ pc' = "raised"
    /\ exit_status' = 1

\* lines 169-185: main prints and calls load_and_resample
main ==
    /\ pc = "main"
    /\ stdout' = Append(stdout, Line("[INFO] --- Starting Resample... ---"))
    /\ pc' = "isfile"
    /\ UNCHANGED <<inputs, sds_paths, resampled_subdatasets, opened, ds_num,
                   band_num, disk, error, exit_status>>

\* sys.exit() with no argument raises SystemExit(None): exit status 0
SysExitStatus == 0

\* lines 102-104
FileNotFound ==
    /\ pc = "isfile"
    /\ ~isfile
    /\ stdout' = Append(stdout, <<"File ", "file", " not found.">>)
    /\ exit_status' = SysExitStatus
    /\ pc' = "exited"
    /\ UNCHANGED <<inputs, sds_paths, resampled_subdatasets, opened, ds_num,
                   band_num, disk, error>>

\* lines 106-107
ReadSubdatasets ==
    /\ pc = "isfile"
    /\ isfile
    /\ sds_paths' = subdatasets
    /\ pc' = "map"
    /\ UNCHANGED <<inputs, resampled_subdatasets, opened, ds_num, band_num, disk,
                   error, exit_status, stdout>>

\* lines 109-117, one element of the map
MapResult ==
    resample_band(OpenSubdataset(sds_paths[Len(resampled_subdatasets) + 1]),
                  Float(target_res), resampling_method, resampler, interned)

ResampleSubdataset ==
    /\ pc = "map"
    /\ Len(resampled_subdatasets) < Len(sds_paths)
    /\ MapResult.raised = "none"
    /\ opened' = opened + 1
    /\ stdout' = stdout \o MapResult.stdout
    /\ resampled_subdatasets' =
           Append(resampled_subdatasets,
                  [data |-> MapResult.data, profile |-> MapResult.profile])
    /\ UNCHANGED <<inputs, pc, sds_paths, ds_num, band_num, disk, error, exit_status>>

ResampleRaises ==
    /\ pc = "map"
    /\ Len(resampled_subdatasets) < Len(sds_paths)
    /\ MapResult.raised # "none"
    /\ opened' = opened + 1
    /\ stdout' = stdout \o MapResult.stdout
    /\ Propagate(MapResult.raised, MapResult.line, Len(resampled_subdatasets))
    /\ UNCHANGED <<inputs, sds_paths, resampled_subdatasets, ds_num, band_num, disk>>

\* line 120
EnterEnv ==
    /\ pc = "map"
    /\ Len(resampled_subdatasets) = Len(sds_paths)
    /\ pc' = "loop"
    /\ ds_num' = 0
    /\ UNCHANGED <<inputs, sds_paths, resampled_subdatasets, opened, band_num, disk,
                   error, exit_status, stdout>>

\* line 135: enumerate counts from 0
EnumerateFromOne(num) == num + 1
Enumerate(num) == num

to_create == ToCreate(OutputPath, naming_scheme, Enumerate(ds_num))
ds_dict   == resampled_subdatasets[ds_num + 1]

\* line 137
WriteProfile == Update(ds_dict.profile, [driver |-> "GTiff", dtype |-> "uint16"])

\* lines 136-138 and 78: the profile is updated in place, the file is created empty
OpenOutput ==
    /\ pc = "loop"
    /\ ds_num < Len(resampled_subdatasets)
    /\ resampled_subdatasets' =
           [resampled_subdatasets EXCEPT ![ds_num + 1].profile = WriteProfile]
    /\ disk' = [p \in DOMAIN disk \cup {OpenedPath(to_create)} |->
                   IF p = OpenedPath(to_create)
                   THEN [profile |-> WriteProfile, bands |-> <<>>, open |-> TRUE]
                   ELSE disk[p]]
    /\ band_num' = 1
    /\ pc' = "bands"
    /\ UNCHANGED <<inputs, sds_paths, opened, ds_num, error, exit_status, stdout>>

\* rio.open(path, 'w', **profile) raises: nothing is created
OpenOutputFails ==
    /\ pc = "loop"
    /\ ds_num < Len(resampled_subdatasets)
    /\ resampled_subdatasets' =
           [resampled_subdatasets EXCEPT ![ds_num + 1].profile = WriteProfile]
    /\ Propagate("RasterioIOError", 78, ds_num)
    /\ UNCHANGED <<inputs, sds_paths, opened, ds_num, band_num, disk, stdout>>

\* lines 79-81: enumerate(data, start=1) walks the first axis of data
WriteBand ==
    /\ pc = "bands"
    /\ band_num <= ds_dict.data.shape[1]
    /\ disk' = [disk EXCEPT ![OpenedPath(to_create)].bands =
                   Append(@, [band |-> band_num, dtype |-> "uint16",
                              via |-> ds_dict.data.via, kernel |-> ds_dict.data.kernel,
                              src |-> ds_dict.data.src,
                              shape |-> <<ds_dict.data.shape[2], ds_dict.data.shape[3]>>])]
    /\ band_num' = band_num + 1
    /\ UNCHANGED <<inputs, pc, sds_paths, resampled_subdatasets, opened, ds_num,
                   error, exit_status, stdout>>

\* dst.write_band raises: the with statement closes the file and the exception
\* goes on; what was written stays on disk
WriteBandFails ==
    /\ pc = "bands"
    /\ band_num <= ds_dict.data.shape[1]
    /\ disk' = [disk EXCEPT ![OpenedPath(to_create)].open = FALSE]
    /\ Propagate("RasterioIOError", 81, ds_num)
    /\ UNCHANGED <<inputs, sds_paths, resampled_subdatasets, opened, ds_num,
                   band_num, stdout>>

\* line 82 and the end of the with statement
CloseOutput ==
    /\ pc = "bands"
    /\ band_num > ds_dict.data.shape[1]
    /\ stdout' = Append(stdout, <<"[INFO] Raster written to ", to_create>>)
    /\ disk' = [disk EXCEPT ![OpenedPath(to_create)].open = FALSE]
    /\ ds_num' = ds_num + 1
    /\ pc' = "loop"
    /\ UNCHANGED <<inputs, sds_paths, resampled_subdatasets, opened, band_num,
                   error, exit_status>>

\* lines 140 and 187: load_and_resample returns, main prints and ends
Return ==
    /\ pc = "loop"
    /\ ds_num = Len(resampled_subdatasets)
    /\ stdout' = Append(stdout, Line("[INFO] --- Done. ---"))
    /\ exit_status' = 0
    /\ pc' = "done"
    /\ UNCHANGED <<inputs, sds_paths, resampled_subdatasets, opened, ds_num,
                   band_num, disk, error>>

Next ==
    \/ main
    \/ FileNotFound
    \/ ReadSubdatasets
    \/ ResampleSubdataset
    \/ ResampleRaises
    \/ EnterEnv
    \/ OpenOutput
    \/ OpenOutputFails
    \/ WriteBand
    \/ WriteBandFails
    \/ CloseOutput
    \/ Return

Spec == Init /\ [][Next]_vars

-----------------------------------------------------------------------------
(* Properties of resample_band (checked under SpecBand) *)

Returned(m) == m \in DOMAIN b_out /\ b_out[m].raised = "none"

Zero == <<0, 1>>
One  == <<1, 1>>

\* floor(source pixel size) / target resolution, from the definition
FloorScale == Norm((b_dataset.res[1][1] \div b_dataset.res[1][2]) * b_target[2], b_target[1])

\* C1: the transform of every returned profile keeps b, c, d, f of the source
\* transform, and its a and e are the source's divided by
\* scale = floor(source pixel size) / target resolution (30 at 10 gives a third).
C1_TransformRescaled ==
    \A m \in DOMAIN b_out : Returned(m) =>
        LET out == b_out[m].profile.transform
            src == b_dataset.transform
        IN  /\ out.b = src.b /\ out.c = src.c /\ out.d = src.d /\ out.f = src.f
            /\ RMul(out.a, FloorScale) = src.a
            /\ RMul(out.e, FloorScale) = src.e
            /\ (b_dataset = Landsat /\ b_target = <<10, 1>>) =>
                   (out.a = <<10, 1>> /\ out.e = <<-10, 1>>)

C1_Witness ==
    /\ b_dataset = Landsat /\ b_target = <<10, 1>>
    /\ \E m \in DOMAIN b_out : Returned(m) /\ FloorScale = <<3, 1>>

\* C2: the height, width and band count the returned profile declares are the
\* shape (bands, rows, columns) of the returned array.
C2_ProfileMatchesData ==
    \A m \in DOMAIN b_out : Returned(m) =>
        /\ b_out[m].profile.count = b_out[m].data.shape[1]
        /\ b_out[m].profile.height = Float(b_out[m].data.shape[2])
        /\ b_out[m].profile.width = Float(b_out[m].data.shape[3])

\* the scale is 1 and the output grid is the source grid
IdentityGrid(m) ==
    /\ Returned(m)
    /\ Scaling(b_dataset, b_target) = One
    /\ b_out[m].profile.height = Float(b_dataset.height)
    /\ b_out[m].profile.width = Float(b_dataset.width)
    /\ b_out[m].data.shape = <<b_dataset.count, b_dataset.height, b_dataset.width>>

\* C3 as claimed: a target resolution equal to the source pixel size, integral
\* or not, gives scale 1 and an output grid equal to the source grid.
C3_EqualResolutionIsIdentity ==
    b_target = b_dataset.res[1] => \A m \in DOMAIN b_out : IdentityGrid(m)

\* C3 as amended: a target resolution equal to an integral source pixel size
\* gives scale 1 and an output grid equal to the source grid.
C3_IntegralResolutionIsIdentity ==
    (b_target = b_dataset.res[1] /\ b_dataset.res[1][2] = 1) =>
        \A m \in DOMAIN b_out : IdentityGrid(m)

C3_Witness ==
    /\ b_dataset = Landsat /\ b_target = <<30, 1>>
    /\ DOMAIN b_out = Resampling

PositiveScale(m) ==
    /\ RLess(Zero, Scaling(b_dataset, b_target))
    /\ b_out[m].raised # "ZeroDivisionError"

\* C4 as claimed: source pixel size > 0 and target resolution > 0 give a scale
\* factor > 0, and the divisions by it are defined.
C4_ScalePositive ==
    (RLess(Zero, b_dataset.res[1]) /\ RLess(Zero, b_target)) =>
        \A m \in DOMAIN b_out : PositiveScale(m)

\* C4 as amended: source pixel size >= 1 and target resolution > 0 give a scale
\* factor > 0, and the divisions by it are defined.
C4_ScalePositiveFromOne ==
    (~RLess(b_dataset.res[1], One) /\ RLess(Zero, b_target)) =>
        \A m \in DOMAIN b_out : PositiveScale(m)

C4_Witness ==
    /\ b_dataset = Fine /\ b_target = <<30, 1>>
    /\ \E m \in DOMAIN b_out : Returned(m)

\* C9: with the zoom resampler any two requested resampling methods give the
\* same array and the same profile, and every call that resamples with a method
\* other than nearest prints the warning.
C9_ZoomIgnoresMethod ==
    b_resampler = "zoom" =>
        /\ \A m1, m2 \in DOMAIN b_out : b_out[m1] = b_out[m2]
        /\ \A m \in DOMAIN b_out :
               (Returned(m) /\ m # "nearest") =>
                   \E k \in DOMAIN b_out[m].stdout : b_out[m].stdout[k] = WarningZoom

C9_Witness ==
    /\ b_resampler = "zoom"
    /\ {"bilinear", "cubic"} \subseteq DOMAIN b_out
    /\ Returned("bilinear") /\ Returned("cubic")
    /\ b_out["bilinear"].data.via = "zoom"

-----------------------------------------------------------------------------
(* Properties of a run (checked under Spec) *)

Terminated == pc \in {"done", "raised", "exited"}

\* the file write_resampled opens for the subdataset at discovery index i
FileOf(i) == OpenedPath(ToCreate(OutputPath, naming_scheme, i))

\* the file of subdataset i exists, is closed and holds all its bands
Complete(i) ==
    /\ FileOf(i) \in DOMAIN disk
    /\ ~disk[FileOf(i)].open
    /\ LET ds == OpenSubdataset(sds_paths[i + 1])
       IN  /\ Len(disk[FileOf(i)].bands) = ds.count
           /\ \A k \in 1..ds.count :
                  /\ disk[FileOf(i)].bands[k].band = k
                  /\ disk[FileOf(i)].bands[k].src = ds.name

\* C5: a source that declares no subdatasets makes the run fail with
\* NoSubdatasets, not return normally, and no file is created.
C5_NoSubdatasetsRaised ==
    (Terminated /\ isfile /\ Len(subdatasets) = 0) =>
        (pc = "raised" /\ error.kind = "NoSubdatasets" /\ DOMAIN disk = {})

\* the pipeline of the subdataset at index i fails
Fails(i) ==
    \/ error.kind # "none" /\ error.ds = i
    \/ resample_band(OpenSubdataset(subdatasets[i + 1]), Float(target_res),
                     resampling_method, resampler, interned).raised # "none"

\* C6: when the run has ended, every subdataset whose pipeline did not fail has
\* been written under its own index, whatever happened to the others.
C6_FailureIsolated ==
    (Terminated /\ isfile) =>
        \A i \in 0..(Len(subdatasets) - 1) : ~Fails(i) => Complete(i)

\* C7: a subdataset whose pipeline failed has no partial file: the file is
\* absent or holds all the bands of the subdataset.
C7_NoPartialFile ==
    error.kind # "none" =>
        \/ FileOf(error.ds) \notin DOMAIN disk
        \/ Len(disk[FileOf(error.ds)].bands) = OpenSubdataset(sds_paths[error.ds + 1]).count

C10_MissingSourceExitsNonZero ==
    (~isfile /\ pc \notin {"main", "isfile"}) =>
        /\ pc = "exited"
        /\ exit_status # 0
        /\ opened = 0
        /\ resampled_subdatasets = <<>>
        /\ DOMAIN disk = {}

====
